---------------------------- MODULE Spec2Model ----------------------------
(***************************************************************************)
(* A model of sqlbindarray: the regular-expression lexer (lexer.py), the   *)
(* SQL literal encoder (encode.py) and the named-parameter replacer        *)
(* (sqlbindarray.py).                                                      *)
(*                                                                         *)
(* A python str is a sequence of one-character strings.  Positions are     *)
(* python's 0-based cursor positions: character i of the text is s[i+1].   *)
(***************************************************************************)
EXTENDS Integers, Sequences, FiniteSets, TLC

VARIABLES
  text,            \* the input string of Lexer.tokens / replace
  patterns,        \* token_patterns: sequence of <<name, regex>>
  lex,             \* the generator frame of Lexer.tokens
  tokens,          \* the tokens the generator has yielded so far, in order
  token,           \* replace: the token of the current loop iteration
  bindings,        \* replace: the bindings mapping
  state,           \* replace: the parser state
  output_parts,    \* replace: committed output
  enqueued_parts,  \* replace: pending output
  pc,              \* replace: "loop", "returned" or "raised"
  result,          \* replace: the returned string
  value,           \* to_sql: the value being encoded
  encoded,         \* to_sql: the string it returned
  singleton,       \* the global _lexer_singleton: NoLexer, or a Lexer object
  constructed,     \* how many Lexer objects _tokens has constructed
  thread           \* the threads that call _tokens: position and locals

\* the variables of one call of tokens, replace or to_sql
callVars == <<text, patterns, lex, tokens, token, bindings, state, output_parts,
              enqueued_parts, pc, result, value, encoded>>

\* the variables of the threads and of the global they share
threadVars == <<singleton, constructed, thread>>

vars == <<text, patterns, lex, tokens, token, bindings, state, output_parts,
          enqueued_parts, pc, result, value, encoded, singleton, constructed,
          thread>>

-----------------------------------------------------------------------------
(* Strings *)

\* text[a:b] of python, 0-based and half-open
Slice(s, a, b) == IF b > a THEN SubSeq(s, a + 1, b) ELSE <<>>

RECURSIVE Join(_)
\* ''.join(parts)
Join(parts) == IF parts = <<>> THEN <<>> ELSE Head(parts) \o Join(Tail(parts))

\* python's None where a str is expected (no str of the model equals it)
None == <<"None">>

-----------------------------------------------------------------------------
(* The regular expressions of python's re, as far as the patterns use them *)

\* every node carries n, the number of capturing groups in it
Chr(S) == [t |-> "in", s |-> S, n |-> 0]            \* a character of S
NotChr(S) == [t |-> "notin", s |-> S, n |-> 0]      \* [^S]
Eol == [t |-> "eol", n |-> 0]                       \* $

RECURSIVE SumGroups(_)
SumGroups(rs) == IF rs = <<>> THEN 0 ELSE Head(rs).n + SumGroups(Tail(rs))

Cat(rs) == [t |-> "cat", rs |-> rs, n |-> SumGroups(rs)]   \* concatenation; Cat(<<>>) is ''
Alt(rs) == [t |-> "alt", rs |-> rs, n |-> SumGroups(rs)]   \* r1|r2|...
Star(r) == [t |-> "star", r |-> r, n |-> r.n]              \* r* (greedy)
Plus(r) == Cat(<<r, Star(r)>>)                             \* r+ (greedy)
Grp(r) == [t |-> "grp", r |-> r, n |-> 1 + r.n]            \* (r), capturing
Lit(s) == Cat([i \in 1..Len(s) |-> Chr({s[i]})])

\* re.compile(pattern).groups
NumGroups(r) == r.n

\* the span of a group that took no part in the match
NoSpan == <<-1, -1>>
Nones(n) == [i \in 1..n |-> NoSpan]

(***************************************************************************)
(* Matches(r, s, i): every way r matches s from position i, in the order   *)
(* the backtracking engine tries them; each is [e |-> end, g |-> spans of  *)
(* r's groups].  The engine's match is the first.                          *)
(***************************************************************************)
RECURSIVE Matches(_, _, _)
RECURSIVE CatMatches(_, _, _)
RECURSIVE CatRest(_, _, _)
RECURSIVE AltMatches(_, _, _, _, _)
RECURSIVE StarMatches(_, _, _, _)
RECURSIVE StarRest(_, _, _, _)
RECURSIVE Prepend(_, _)

\* the matches ms, each with the groups g put before its own
Prepend(g, ms) ==
  IF ms = <<>> THEN <<>>
  ELSE <<[e |-> Head(ms).e, g |-> g \o Head(ms).g]>> \o Prepend(g, Tail(ms))

Matches(r, s, i) ==
  CASE r.t = "in" ->
         IF i < Len(s) /\ s[i + 1] \in r.s
         THEN <<[e |-> i + 1, g |-> <<>>]>> ELSE <<>>
    [] r.t = "notin" ->
         IF i < Len(s) /\ s[i + 1] \notin r.s
         THEN <<[e |-> i + 1, g |-> <<>>]>> ELSE <<>>
    [] r.t = "eol" ->
         IF i = Len(s) \/ (i = Len(s) - 1 /\ s[i + 1] = "\n")
         THEN <<[e |-> i, g |-> <<>>]>> ELSE <<>>
    [] r.t = "cat" -> CatMatches(r.rs, s, i)
    [] r.t = "alt" -> AltMatches(r.rs, s, i, 0, NumGroups(r))
    [] r.t = "star" -> StarMatches(r.r, s, i, Nones(NumGroups(r.r)))
    [] r.t = "grp" -> LET ms == Matches(r.r, s, i)
                      IN  [k \in 1..Len(ms) |->
                             [e |-> ms[k].e, g |-> <<<<i, ms[k].e>>>> \o ms[k].g]]

\* rs[1] rs[2] ... from i
CatMatches(rs, s, i) ==
  IF rs = <<>> THEN <<[e |-> i, g |-> <<>>]>>
  ELSE CatRest(Matches(Head(rs), s, i), Tail(rs), s)

\* for each match of the head, in order, the matches of the rest after it
CatRest(ms, rs, s) ==
  IF ms = <<>> THEN <<>>
  ELSE Prepend(Head(ms).g, CatMatches(rs, s, Head(ms).e)) \o CatRest(Tail(ms), rs, s)

\* the alternatives in order; before groups precede the head's, n in all
AltMatches(rs, s, i, before, n) ==
  IF rs = <<>> THEN <<>>
  ELSE LET k == NumGroups(Head(rs))
           ms == Matches(Head(rs), s, i)
       IN  [j \in 1..Len(ms) |->
              [e |-> ms[j].e,
               g |-> Nones(before) \o ms[j].g \o Nones(n - before - k)]]
           \o AltMatches(Tail(rs), s, i, before + k, n)

\* greedy r*: one more (non-empty) iteration first, stopping here last;
\* g is the groups of the last iteration
StarMatches(r, s, i, g) ==
  StarRest(Matches(r, s, i), r, s, i) \o <<[e |-> i, g |-> g]>>

StarRest(ms, r, s, i) ==
  IF ms = <<>> THEN <<>>
  ELSE (IF Head(ms).e > i THEN StarMatches(r, s, Head(ms).e, Head(ms).g) ELSE <<>>)
       \o StarRest(Tail(ms), r, s, i)

RECURSIVE SearchFrom(_, _, _, _)
\* regex.search(s, pos, endpos) with endpos = len(s): the first match at the
\* leftmost position that has one, as [found, start, e, g]
SearchFrom(r, s, pos, endpos) ==
  IF pos > endpos THEN [found |-> FALSE, start |-> -1, e |-> -1, g |-> <<>>]
  ELSE LET ms == Matches(r, s, pos)
       IN  IF ms # <<>>
           THEN [found |-> TRUE, start |-> pos, e |-> ms[1].e, g |-> ms[1].g]
           ELSE SearchFrom(r, s, pos + 1, endpos)

-----------------------------------------------------------------------------
(* lexer.py *)

\* the characters \w and \s match, among those the model's texts use
WordChars == {"a", "b", "c", "s", "x", "y", "_", "0", "1", "2", "3", "5"}
SpaceChars == {" ", "\t", "\n", "\r", "\f"}

\* Token.kind of a section of text that matched no token pattern
NoKind == "None"

Token(kind, txt, groups, input_range) ==
  [kind |-> kind, text |-> txt, groups |-> groups, input_range |-> input_range]

GroupSpec(group_index, subgroup_range, token_kind) ==
  [group_index |-> group_index, subgroup_range |-> subgroup_range,
   token_kind |-> token_kind]

\* a bug: the subgroups of the patterns before are not counted
token_pattern_to_group_spec_SkipsSubgroups(spec_list, named_pattern) ==
  LET index == Len(spec_list)
      num_subgroups == NumGroups(named_pattern[2])
  IN  Append(spec_list,
             GroupSpec(index, <<index + 1, index + 1 + num_subgroups>>,
                       named_pattern[1]))

\* Append a group spec from the named pattern and return the extended list.
token_pattern_to_group_spec(spec_list, named_pattern) ==
  LET index == IF Len(spec_list) = 0 THEN 0
               ELSE spec_list[Len(spec_list)].subgroup_range[2]
      num_subgroups == NumGroups(named_pattern[2])
  IN  Append(spec_list,
             GroupSpec(index, <<index + 1, index + 1 + num_subgroups>>,
                       named_pattern[1]))

RECURSIVE reduce_group_specs(_, _)
\* functools.reduce(_token_pattern_to_group_spec, items, spec_list)
reduce_group_specs(spec_list, items) ==
  IF items = <<>> THEN spec_list
  ELSE reduce_group_specs(token_pattern_to_group_spec(spec_list, Head(items)),
                          Tail(items))

group_specs(token_patterns) == reduce_group_specs(<<>>, token_patterns)

\* '|'.join(f'({pattern})' for pattern in patterns); of no pattern it is ''
combine_patterns(ps) ==
  IF ps = <<>> THEN Cat(<<>>) ELSE Alt([i \in 1..Len(ps) |-> Grp(ps[i])])

\* Lexer.__init__
Lexer(token_patterns) ==
  [regex |-> combine_patterns([i \in 1..Len(token_patterns) |-> token_patterns[i][2]]),
   group_specs |-> group_specs(token_patterns)]

\* match.groups(): the text of each group, None for one that took no part
GroupText(s, span) == IF span = NoSpan THEN None ELSE Slice(s, span[1], span[2])
MatchGroups(s, m) == [i \in 1..Len(m.g) |-> GroupText(s, m.g[i])]

NoMatch == [found |-> FALSE, start |-> -1, e |-> -1, g |-> <<>>]
NoToken == Token("-", <<>>, <<>>, <<-1, -1>>)

\* the frame of a call of Lexer.tokens that has not run yet
LexBegin == [pc |-> "begin", index |-> 0, m |-> NoMatch]

\* lines 132-142: find out which token was matched and yield it
LexMatched(L, s, index, m) ==
  LET groups == MatchGroups(s, m)
      hits == {k \in 1..Len(L.group_specs) :
                 groups[L.group_specs[k].group_index + 1] # None}
  IN  IF hits = {}
      THEN \* next() of an empty generator: StopIteration inside a generator
           [lex |-> [pc |-> "raised", index |-> index, m |-> m], tok |-> NoToken]
      ELSE LET matched_spec == L.group_specs[CHOOSE k \in hits : \A j \in hits : k <= j]
               r == matched_spec.subgroup_range
           IN  [lex |-> [pc |-> "y3", index |-> index, m |-> m],
                tok |-> Token(matched_spec.token_kind,
                              groups[matched_spec.group_index + 1],
                              [i \in 1..(r[2] - r[1]) |-> groups[r[1] + i]],
                              <<m.start, m.e>>)]

\* a bug: the unmatched text before a match is not yielded
LexLoop_NoGap(L, s, index) ==
  LET end == Len(s)
  IN  IF index = end
      THEN [lex |-> [pc |-> "done", index |-> index, m |-> NoMatch], tok |-> NoToken]
      ELSE LET m == SearchFrom(L.regex, s, index, end)
           IN  IF ~m.found
               THEN [lex |-> [pc |-> "y1", index |-> index, m |-> NoMatch],
                     tok |-> Token(NoKind, Slice(s, index, end), <<>>, <<index, end>>)]
               ELSE LexMatched(L, s, index, m)

\* lines 113-130: the loop from its head, to the next yield
LexLoop(L, s, index) ==
  LET end == Len(s)
  IN  IF index = end
      THEN [lex |-> [pc |-> "done", index |-> index, m |-> NoMatch], tok |-> NoToken]
      ELSE LET m == SearchFrom(L.regex, s, index, end)
           IN  IF ~m.found
               THEN [lex |-> [pc |-> "y1", index |-> index, m |-> NoMatch],
                     tok |-> Token(NoKind, Slice(s, index, end), <<>>, <<index, end>>)]
               ELSE IF m.start # index
               THEN [lex |-> [pc |-> "y2", index |-> index, m |-> m],
                     tok |-> Token(NoKind, Slice(s, index, m.start), <<>>,
                                   <<index, m.start>>)]
               ELSE LexMatched(L, s, index, m)

\* the value of index when the frame f, resumed, next tests the loop condition
\* (f stands after the yield of line 118 or 138, or has not run)
ResumeIndex(s, f) ==
  CASE f.pc = "begin" -> 0
    [] f.pc = "y1" -> Len(s)
    [] f.pc = "y3" -> f.m.e
    [] OTHER -> f.index

\* the frame f, resumed, leaves the loop (index = end) and the generator ends
LexExhausted(s, f) ==
  f.pc \in {"begin", "y1", "y3"} /\ ResumeIndex(s, f) = Len(s)

(***************************************************************************)
(* One resumption of the generator Lexer.tokens: from where the frame f    *)
(* stands ("begin", or after the yield of line 118, 126 or 138) to its     *)
(* next yield, to its end ("done") or to the exception it raises.          *)
(***************************************************************************)
LexResume(L, s, f) ==
  CASE f.pc \in {"begin", "y1", "y3"} -> LexLoop(L, s, ResumeIndex(s, f))
    [] f.pc = "y2" -> LexMatched(L, s, f.index, f.m)
    [] OTHER -> [lex |-> f, tok |-> NoToken]

-----------------------------------------------------------------------------
(* sqlbindarray.py: the token patterns *)

W == Chr(WordChars)

token_patterns == <<
  <<"quoted string", Cat(<<Chr({"'"}), Star(NotChr({"'"})), Chr({"'"})>>)>>,
  <<"quoted identifier", Cat(<<Chr({"\""}), Grp(Star(NotChr({"\""}))), Chr({"\""})>>)>>,
  <<"line comment", Cat(<<Chr({"-"}), Chr({"-"}), Star(NotChr({"\n"})),
                          Alt(<<Chr({"\n"}), Eol>>)>>)>>,
  <<"block comment", Cat(<<Chr({"/"}), Plus(Chr({"*"})),
                           Star(Alt(<<NotChr({"*"}),
                                      Cat(<<Chr({"*"}), NotChr({"/"})>>)>>)),
                           Plus(Chr({"*"})), Chr({"/"})>>)>>,
  <<"named parameter prefix", Chr({":", "@"})>>,
  <<"named parameter length prefix", Alt(<<Lit(<<"#", ":">>), Lit(<<"#", "@">>)>>)>>,
  <<"python named parameter",
    Cat(<<Chr({"%"}), Chr({"("}), Grp(Plus(W)), Chr({")"}), Chr({"s"})>>)>>,
  <<"python named parameter length",
    Cat(<<Chr({"#"}), Chr({"%"}), Chr({"("}), Grp(Plus(W)), Chr({")"}), Chr({"s"})>>)>>,
  <<"word", Plus(W)>>,
  <<"whitespace", Plus(Chr(SpaceChars))>> >>

-----------------------------------------------------------------------------
(* encode.py *)

\* the python values of the model: str, int, list, None and, as a value of
\* unsupported type, a dict
Str(s) == [k |-> "str", v |-> s]
Num(n) == [k |-> "num", v |-> n]
List(items) == [k |-> "list", v |-> items]
Null == [k |-> "null", v |-> <<>>]
Dict == [k |-> "dict", v |-> <<>>]

\* what a call gives: the str it returned, or raised
Returned(s) == [ok |-> TRUE, s |-> s]
Raised == [ok |-> FALSE, s |-> None]

Digit(d) == <<"0", "1", "2", "3", "4", "5", "6", "7", "8", "9">>[d + 1]

RECURSIVE DecStr(_)
\* str(n) of an int
DecStr(n) ==
  IF n < 0 THEN <<"-">> \o DecStr(-n)
  ELSE IF n < 10 THEN <<Digit(n)>>
  ELSE DecStr(n \div 10) \o <<Digit(n % 10)>>

RECURSIVE StrReplace(_, _, _)
\* s.replace(old, new) for a one-character old
StrReplace(s, old, new) ==
  IF s = <<>> THEN <<>>
  ELSE (IF Head(s) = old THEN new ELSE <<Head(s)>>) \o StrReplace(Tail(s), old, new)

\* a bug: the quotes inside the string are not doubled
quote_str_NoDoubling(s) == <<"'">> \o s \o <<"'">>

\* line 16: "'" + value.replace("'", "''") + "'"
quote_str(s) == <<"'">> \o StrReplace(s, "'", <<"'", "'">>) \o <<"'">>

RECURSIVE to_sql(_)
RECURSIVE to_sql_join(_)

\* a bug: the elements are joined by a comma alone
to_sql_join_NoSpace(items) ==
  IF items = <<>> THEN Returned(<<>>)
  ELSE LET h == to_sql(Head(items))
           t == to_sql_join(Tail(items))
       IN  IF ~h.ok \/ ~t.ok THEN Raised
           ELSE IF Tail(items) = <<>> THEN h
           ELSE Returned(h.s \o <<",">> \o t.s)

\* ', '.join(to_sql(element) for element in value); raises when an element does
to_sql_join(items) ==
  IF items = <<>> THEN Returned(<<>>)
  ELSE LET h == to_sql(Head(items))
           t == to_sql_join(Tail(items))
       IN  IF ~h.ok \/ ~t.ok THEN Raised
           ELSE IF Tail(items) = <<>> THEN h
           ELSE Returned(h.s \o <<",", " ">> \o t.s)

\* a bug: a value of unsupported type is encoded as null
to_sql_UnsupportedAsNull(val) ==
  CASE val.k = "str" -> Returned(quote_str(val.v))
    [] val.k = "num" -> Returned(DecStr(val.v))
    [] val.k = "list" -> LET j == to_sql_join(val.v)
                         IN  IF j.ok THEN Returned(<<"(">> \o j.s \o <<")">>) ELSE Raised
    [] OTHER -> Returned(<<"n", "u", "l", "l">>)

to_sql(val) ==
  CASE val.k = "str" -> Returned(quote_str(val.v))
    [] val.k = "num" -> Returned(DecStr(val.v))
    [] val.k = "list" -> LET j == to_sql_join(val.v)
                         IN  IF j.ok THEN Returned(<<"(">> \o j.s \o <<")">>) ELSE Raised
    [] val.k = "null" -> Returned(<<"n", "u", "l", "l">>)
    [] OTHER -> Raised

\* a bug: a value without a length counts as empty
str_len_NoneIsEmpty(val) ==
  IF val.k \in {"str", "list", "dict"}
  THEN Returned(DecStr(Len(val.v))) ELSE Returned(<<"0">>)

\* str(len(value)); len raises TypeError for a value that has no length (a
\* number, None); a dict has one
str_len(val) ==
  IF val.k \in {"str", "list", "dict"} THEN Returned(DecStr(Len(val.v))) ELSE Raised

-----------------------------------------------------------------------------
(* sqlbindarray.py: the parser *)

CHILLIN == "CHILLIN"
IN_PARAMETER == "IN_PARAMETER"
IN_PARAMETER_LENGTH == "IN_PARAMETER_LENGTH"

PUSH == "PUSH"
EMIT == "EMIT"
FLUSH == "FLUSH"

\* what _handle_token returns, or that it raised
Handled(op, part, st) == [raised |-> FALSE, op |-> op, part |-> part, state |-> st]
HandleRaised == [raised |-> TRUE, op |-> "-", part |-> None, state |-> "-"]

\* return op, f(bindings[name]), st; f raising makes the call raise
HandledValue(op, r, st) == IF r.ok THEN Handled(op, r.s, st) ELSE HandleRaised

\* a bug: whatever token follows the prefix is taken as the name
parameter_name_AnyToken(tok) == Returned(tok.text)

\* a bug: the name of a quoted identifier keeps its quotes
parameter_name_KeepsQuotes(tok) ==
  CASE tok.kind = "word" -> Returned(tok.text)
    [] tok.kind = "quoted identifier" -> Returned(tok.text)
    [] OTHER -> Raised

\* lines 151-158: the name after a prefix, of a word or a quoted identifier;
\* any other token raises
parameter_name(tok) ==
  CASE tok.kind = "word" -> Returned(tok.text)
    [] tok.kind = "quoted identifier" ->
         IF Len(tok.groups) = 1 THEN Returned(tok.groups[1]) ELSE Raised
    [] OTHER -> Raised

\* State machine transition function driven by a token
handle_token(tok, st, b) ==
  LET kind == tok.kind
      txt == tok.text
      groups == tok.groups
  IN
  IF kind \in {"line comment", "block comment", "whitespace"}
  THEN Handled(PUSH, txt, st)
  ELSE IF st = CHILLIN
  THEN CASE kind = "python named parameter" ->
              LET name == groups[1]
              IN  IF Len(groups) # 1 \/ name = None THEN HandleRaised
                  ELSE IF name \in DOMAIN b
                  THEN HandledValue(FLUSH, to_sql(b[name]), st)
                  ELSE Handled(FLUSH, txt, st)
         [] kind = "python named parameter length" ->
              LET name == groups[1]
              IN  IF Len(groups) # 1 \/ name = None THEN HandleRaised
                  ELSE IF name \in DOMAIN b
                  THEN HandledValue(FLUSH, str_len(b[name]), st)
                  ELSE Handled(FLUSH, txt, st)
         [] kind = "named parameter prefix" -> Handled(PUSH, txt, IN_PARAMETER)
         [] kind = "named parameter length prefix" ->
              Handled(PUSH, txt, IN_PARAMETER_LENGTH)
         [] OTHER -> Handled(FLUSH, txt, st)
  ELSE LET p == parameter_name(tok)
       IN  IF ~p.ok \/ p.s = None THEN HandleRaised
           ELSE IF p.s \notin DOMAIN b THEN Handled(FLUSH, txt, CHILLIN)
           ELSE IF st = IN_PARAMETER
           THEN HandledValue(EMIT, to_sql(b[p.s]), CHILLIN)
           ELSE HandledValue(EMIT, str_len(b[p.s]), CHILLIN)

\* a bug: FLUSH, like EMIT, discards the enqueued parts
ApplyOp_FlushDiscards(op, part, out, enq) ==
  CASE op = PUSH -> [output_parts |-> out, enqueued_parts |-> Append(enq, part)]
    [] op = EMIT -> [output_parts |-> Append(out, part), enqueued_parts |-> <<>>]
    [] op = FLUSH -> [output_parts |-> Append(out, part), enqueued_parts |-> <<>>]

\* a bug: EMIT, like FLUSH, outputs the enqueued parts before the part
ApplyOp_EmitKeepsPending(op, part, out, enq) ==
  CASE op = PUSH -> [output_parts |-> out, enqueued_parts |-> Append(enq, part)]
    [] op = EMIT -> [output_parts |-> Append(out \o enq, part), enqueued_parts |-> <<>>]
    [] op = FLUSH -> [output_parts |-> Append(out \o enq, part), enqueued_parts |-> <<>>]

\* a bug: FLUSH outputs the part before the enqueued parts
ApplyOp_FlushPartFirst(op, part, out, enq) ==
  CASE op = PUSH -> [output_parts |-> out, enqueued_parts |-> Append(enq, part)]
    [] op = EMIT -> [output_parts |-> Append(out, part), enqueued_parts |-> <<>>]
    [] op = FLUSH -> [output_parts |-> <<part>> \o out \o enq, enqueued_parts |-> <<>>]

\* a bug: PUSH appends to the output as well
ApplyOp_PushCommits(op, part, out, enq) ==
  CASE op = PUSH -> [output_parts |-> Append(out, part),
                     enqueued_parts |-> Append(enq, part)]
    [] op = EMIT -> [output_parts |-> Append(out, part), enqueued_parts |-> <<>>]
    [] op = FLUSH -> [output_parts |-> Append(out \o enq, part), enqueued_parts |-> <<>>]

\* lines 186-195: the output operation op of part on the two lists
ApplyOp(op, part, out, enq) ==
  CASE op = PUSH -> [output_parts |-> out, enqueued_parts |-> Append(enq, part)]
    [] op = EMIT -> [output_parts |-> Append(out, part), enqueued_parts |-> <<>>]
    [] op = FLUSH -> [output_parts |-> Append(out \o enq, part), enqueued_parts |-> <<>>]

-----------------------------------------------------------------------------
(* The inputs of the model *)

\* a text is at most MaxFrags of these pieces, one after the other
MaxFrags == 3

Fragments == {
  <<"x">>, <<" ">>, <<"=">>,
  <<":">>, <<"@">>, <<"#", ":">>, <<"#", "@">>,
  <<"/", "*", ":", "x", "*", "/">>,
  <<"-", "-", ":", "x", "\n">>,
  <<"'", ":", "x", "'">>,
  <<"\"", "x", "\"">>,
  <<"%", "(", "x", ")", "s">>,
  <<"#", "%", "(", "x", ")", "s">> }

\* a piece the shorter texts have besides: a quoted identifier that holds :x
QuotedFragments == { <<"\"", ":", "x", "\"">> }

RECURSIVE TextsOver(_, _)
\* the texts of at most n of the pieces F
TextsOver(F, n) ==
  IF n = 0 THEN {<<>>}
  ELSE LET T == TextsOver(F, n - 1) IN T \cup {t \o f : t \in T, f \in F}

RECURSIVE TextsOf(_)
TextsOf(n) ==
  IF n = 0 THEN {<<>>}
  ELSE LET T == TextsOf(n - 1) IN T \cup {t \o f : t \in T, f \in Fragments}

Texts == TextsOf(MaxFrags)

X == <<"x">>
Y == <<"y">>
\* the key '"x"', double quotes included
QX == <<"\"", "x", "\"">>
\* the key ':x', which is no word
CX == <<":", "x">>

\* the values a name is bound to
BoundValues == {
  Num(5),
  Str(<<"O", "'", "B">>),
  List(<<Num(1), Num(2), Num(3)>>),
  List(<<>>),
  List(<<List(<<Num(1), Num(2)>>)>>),
  Null }

\* values to_sql does not support: a dict, and lists that hold one
UnsupportedValues == {
  Dict,
  List(<<Dict>>),
  List(<<Num(1), List(<<Dict>>)>>) }

BindingsSet ==
  {<<>>} \cup {Y :> Num(5), QX :> Num(5)}
    \cup {X :> v : v \in BoundValues \cup UnsupportedValues}

CoreBindings == {Y :> Num(5), X :> Num(5)}

\* the calls of replace: every text with the core bindings, the texts one
\* piece shorter with every binding, and those that hold the quoted
\* identifier of :x with x bound, or with :x bound
Inputs ==
  (Texts \X CoreBindings)
    \cup (TextsOf(MaxFrags - 1) \X BindingsSet)
    \cup (TextsOver(Fragments \cup QuotedFragments, MaxFrags - 1)
            \X {X :> Num(5), CX :> Num(5)})

-----------------------------------------------------------------------------
(* replace(sql_statement, bindings) *)

\* _lexer_singleton, once _tokens has loaded it
lexer_singleton == Lexer(token_patterns)

\* _lexer_singleton before any call of _tokens
NoLexer == 0

\* no thread is calling _tokens, which has loaded the singleton: Lexer
\* object 1, the one object constructed
SingletonLoaded ==
  /\ singleton = 1
  /\ constructed = 1
  /\ thread = <<>>

\* no thread is calling _tokens, and none has
SingletonUnused ==
  /\ singleton = NoLexer
  /\ constructed = 0
  /\ thread = <<>>

\* no call of to_sql of its own is in progress
NoEncode ==
  /\ value = Null
  /\ encoded = None

Init ==
  /\ \E call \in Inputs : text = call[1] /\ bindings = call[2]
  /\ patterns = token_patterns
  /\ lex = LexBegin
  /\ tokens = <<>>
  /\ token = NoToken
  /\ state = CHILLIN
  /\ output_parts = <<>>
  /\ enqueued_parts = <<>>
  /\ pc = "for"
  /\ result = None
  /\ NoEncode
  /\ SingletonLoaded

\* line 184: the for loop takes the next token from the generator
ReplaceNextToken ==
  /\ pc = "for"
  /\ ~LexExhausted(text, lex)
  /\ LET n == LexResume(lexer_singleton, text, lex)
     IN  /\ lex' = n.lex
         /\ IF n.lex.pc = "raised"
            THEN pc' = "raised" /\ UNCHANGED <<token, tokens>>
            ELSE pc' = "body" /\ token' = n.tok /\ tokens' = Append(tokens, n.tok)
  /\ UNCHANGED <<text, patterns, bindings, state, output_parts, enqueued_parts,
                 result, value, encoded>>
  /\ UNCHANGED threadVars

\* lines 185-195: the token is handled and its output operation applied
ReplaceToken ==
  /\ pc = "body"
  /\ LET h == handle_token(token, state, bindings)
     IN  /\ ~h.raised
         /\ LET o == ApplyOp(h.op, h.part, output_parts, enqueued_parts)
            IN  /\ output_parts' = o.output_parts
                /\ enqueued_parts' = o.enqueued_parts
         /\ state' = h.state
  /\ pc' = "for"
  /\ UNCHANGED <<text, patterns, lex, tokens, token, bindings, result, value, encoded>>
  /\ UNCHANGED threadVars

\* line 185: _handle_token raises, so replace raises and returns nothing
ReplaceRaise ==
  /\ pc = "body"
  /\ handle_token(token, state, bindings).raised
  /\ pc' = "raised"
  /\ UNCHANGED <<text, patterns, lex, tokens, token, bindings, state, output_parts,
                 enqueued_parts, result, value, encoded>>
  /\ UNCHANGED threadVars

\* a bug: what is still enqueued after the last token is forgotten
final_parts_NoPending(out, enq) == out

\* line 197: output_parts.extend(enqueued_parts)
final_parts(out, enq) == out \o enq

\* the generator is exhausted: lines 197-198
ReplaceReturn ==
  /\ pc = "for"
  /\ LexExhausted(text, lex)
  /\ lex' = LexResume(lexer_singleton, text, lex).lex
  /\ output_parts' = final_parts(output_parts, enqueued_parts)
  /\ result' = Join(output_parts')
  /\ pc' = "returned"
  /\ UNCHANGED <<text, patterns, bindings, state, enqueued_parts, tokens, token,
                 value, encoded>>
  /\ UNCHANGED threadVars

Next == ReplaceNextToken \/ ReplaceToken \/ ReplaceRaise \/ ReplaceReturn

Spec == Init /\ [][Next]_vars

-----------------------------------------------------------------------------
(* Lexer(token_patterns).tokens(text), for any token patterns *)

\* the longest text given to the lexer, and the most tokens taken from it
MaxLexLen == 3
MaxTokens == 4

LexChars == {"a", "b"}

RECURSIVE StringsOver(_, _)
\* the strings of at most n characters of S
StringsOver(S, n) ==
  IF n = 0 THEN {<<>>}
  ELSE LET T == StringsOver(S, n - 1) IN T \cup {Append(t, c) : t \in T, c \in S}

A == Chr({"a"})
B == Chr({"b"})
\* r?
Opt(r) == Alt(<<r, Cat(<<>>)>>)

\* the token patterns the lexer is constructed with, in mapping order
PatternSets == {
  <<>>,                                                    \* {}
  <<<<"A", Plus(A)>>>>,                                    \* {'A': 'a+'}
  <<<<"A", A>>, <<"AB", Cat(<<A, B>>)>>, <<"B", B>>>>,     \* {'A': 'a', 'AB': 'ab', 'B': 'b'}
  <<<<"AB", Cat(<<Grp(A), Opt(Grp(B))>>)>>,
    <<"BA", Cat(<<B, Grp(Star(A))>>)>>>>,                  \* {'AB': '(a)(b)?', 'BA': 'b(a*)'}
  <<<<"E", Star(A)>>>>,                                    \* {'E': 'a*'}
  <<<<"N", Grp(Cat(<<Grp(A), B>>))>>, <<"B", B>>,
    <<"G", Cat(<<A, Grp(Opt(A))>>)>>>>,                    \* {'N': '((a)b)', 'B': 'b', 'G': 'a(a?)'}
  <<<<"B", Plus(B)>>, <<"O", Opt(A)>>>> }                  \* {'B': 'b+', 'O': 'a?'}

\* no call of replace is in progress
NoReplace ==
  /\ bindings = <<>>
  /\ state = CHILLIN
  /\ output_parts = <<>>
  /\ enqueued_parts = <<>>
  /\ token = NoToken
  /\ result = None

InitLex ==
  /\ text \in StringsOver(LexChars, MaxLexLen)
  /\ patterns \in PatternSets
  /\ lex = LexBegin
  /\ tokens = <<>>
  /\ pc = "tokens"
  /\ NoReplace
  /\ NoEncode
  /\ SingletonUnused

\* next(generator) yields a token
LexYield ==
  /\ lex.pc \notin {"done", "raised"}
  /\ Len(tokens) < MaxTokens
  /\ LET n == LexResume(Lexer(patterns), text, lex)
     IN  /\ n.lex.pc \notin {"done", "raised"}
         /\ lex' = n.lex
         /\ tokens' = Append(tokens, n.tok)
  /\ UNCHANGED <<text, patterns, token, bindings, state, output_parts,
                 enqueued_parts, pc, result, value, encoded>>
  /\ UNCHANGED threadVars

\* next(generator): the generator returns (StopIteration)
LexStop ==
  /\ lex.pc \notin {"done", "raised"}
  /\ LexResume(Lexer(patterns), text, lex).lex.pc = "done"
  /\ lex' = LexResume(Lexer(patterns), text, lex).lex
  /\ UNCHANGED <<text, patterns, tokens, token, bindings, state, output_parts,
                 enqueued_parts, pc, result, value, encoded>>
  /\ UNCHANGED threadVars

\* next(generator): the generator raises
LexRaise ==
  /\ lex.pc \notin {"done", "raised"}
  /\ LexResume(Lexer(patterns), text, lex).lex.pc = "raised"
  /\ lex' = LexResume(Lexer(patterns), text, lex).lex
  /\ UNCHANGED <<text, patterns, tokens, token, bindings, state, output_parts,
                 enqueued_parts, pc, result, value, encoded>>
  /\ UNCHANGED threadVars

NextLex == LexYield \/ LexStop \/ LexRaise

SpecLex == InitLex /\ [][NextLex]_vars

-----------------------------------------------------------------------------
(* to_sql(value) *)

\* the longest string encoded, and the longest list
MaxStr == 3
MaxList == 2

StrChars == {"'", "a", ","}

\* list elements: scalars, and lists of them
Scalars == {Num(1), Num(-20), Str(<<"'">>), Null}
Elements == Scalars \cup {List(<<>>), List(<<Num(2), Null>>), List(<<List(<<Num(3)>>)>>), Dict}

RECURSIVE ListsOf(_, _)
\* the lists of at most n of the elements E
ListsOf(E, n) ==
  IF n = 0 THEN {<<>>}
  ELSE LET T == ListsOf(E, n - 1) IN T \cup {Append(t, e) : t \in T, e \in E}

Values ==
  {Str(s) : s \in StringsOver(StrChars, MaxStr)}
    \cup {Num(n) : n \in {0, 5, 12, -3, 305}}
    \cup {List(l) : l \in ListsOf(Elements, MaxList)}
    \cup {Null, Dict}

InitEnc ==
  /\ value \in Values
  /\ encoded = None
  /\ pc = "to_sql"
  /\ text = <<>>
  /\ patterns = <<>>
  /\ lex = LexBegin
  /\ tokens = <<>>
  /\ NoReplace
  /\ SingletonUnused

\* to_sql returns a string
Encode ==
  /\ pc = "to_sql"
  /\ to_sql(value).ok
  /\ encoded' = to_sql(value).s
  /\ pc' = "returned"
  /\ UNCHANGED <<text, patterns, lex, tokens, token, bindings, state, output_parts,
                 enqueued_parts, result, value>>
  /\ UNCHANGED threadVars

\* to_sql raises
EncodeRaise ==
  /\ pc = "to_sql"
  /\ ~to_sql(value).ok
  /\ pc' = "raised"
  /\ UNCHANGED <<text, patterns, lex, tokens, token, bindings, state, output_parts,
                 enqueued_parts, result, value, encoded>>
  /\ UNCHANGED threadVars

NextEnc == Encode \/ EncodeRaise

SpecEnc == InitEnc /\ [][NextEnc]_vars

-----------------------------------------------------------------------------
(* _tokens(text), called by replace from several threads *)

\* the threads, and the calls of replace each makes
NumThreads == 2
MaxCalls == 2

Threads == 1..NumThreads

\* a thread outside _tokens: mine is the Lexer object it constructed, used
\* the Lexer object each of its calls so far has tokenized with
IdleThread == [pc |-> "idle", mine |-> NoLexer, used |-> <<>>]

InitThreads ==
  /\ singleton = NoLexer
  /\ constructed = 0
  /\ thread = [t \in Threads |-> IdleThread]
  /\ text = <<>>
  /\ patterns = token_patterns
  /\ lex = LexBegin
  /\ tokens = <<>>
  /\ pc = "threads"
  /\ NoReplace
  /\ NoEncode

\* line 184: replace calls _tokens
CallTokens(t) ==
  /\ thread[t].pc = "idle"
  /\ Len(thread[t].used) < MaxCalls
  /\ thread' = [thread EXCEPT ![t].pc = "test"]
  /\ UNCHANGED <<singleton, constructed, callVars>>

\* line 34: if _lexer_singleton is None
TestSingleton(t) ==
  /\ thread[t].pc = "test"
  /\ thread' = [thread EXCEPT ![t].pc =
                  IF singleton = NoLexer THEN "construct" ELSE "return"]
  /\ UNCHANGED <<singleton, constructed, callVars>>

\* line 35, right side: lexer.Lexer(_token_patterns) constructs a new object
ConstructLexer(t) ==
  /\ thread[t].pc = "construct"
  /\ constructed' = constructed + 1
  /\ thread' = [thread EXCEPT ![t].pc = "store", ![t].mine = constructed + 1]
  /\ UNCHANGED <<singleton, callVars>>

\* line 35, the assignment to the global
StoreSingleton(t) ==
  /\ thread[t].pc = "store"
  /\ singleton' = thread[t].mine
  /\ thread' = [thread EXCEPT ![t].pc = "return"]
  /\ UNCHANGED <<constructed, callVars>>

\* line 37: _lexer_singleton.tokens(text), of the object the global now holds
ReturnTokens(t) ==
  /\ thread[t].pc = "return"
  /\ thread' = [thread EXCEPT ![t].pc = "idle",
                               ![t].used = Append(@, singleton)]
  /\ UNCHANGED <<singleton, constructed, callVars>>

NextThreads ==
  \E t \in Threads :
    \/ CallTokens(t)
    \/ TestSingleton(t)
    \/ ConstructLexer(t)
    \/ StoreSingleton(t)
    \/ ReturnTokens(t)

SpecThreads == InitThreads /\ [][NextThreads]_vars

-----------------------------------------------------------------------------
(* Properties of Lexer.tokens, under SpecLex *)

\* the generator has stopped, by returning or by raising
LexStopped == lex.pc \in {"done", "raised"}

TokenTexts(toks) == [k \in 1..Len(toks) |-> toks[k].text]

\* the ranges of toks follow one another from 0, and each text is its slice
Contiguous(toks, s) ==
  \A k \in 1..Len(toks) :
    /\ toks[k].input_range[1] = (IF k = 1 THEN 0 ELSE toks[k - 1].input_range[2])
    /\ toks[k].input_range[1] <= toks[k].input_range[2]
    /\ toks[k].text = Slice(s, toks[k].input_range[1], toks[k].input_range[2])

\* C2: for every text and every token patterns, the tokens Lexer.tokens
\* produces partition the input: ranges from 0, each starting where the one
\* before ended, the last ending at len(text), each text the slice of its
\* range, and the texts in order giving back the input.
C2_TokensPartitionInput ==
  /\ Contiguous(tokens, text)
  /\ LexStopped =>
       /\ (IF tokens = <<>> THEN 0 ELSE tokens[Len(tokens)].input_range[2]) = Len(text)
       /\ Join(TokenTexts(tokens)) = text

\* C3: for every text and every token patterns, Lexer.tokens stops without
\* error, the cursor strictly advancing on every iteration of its loop.
C3_CursorAdvancesNoError ==
  /\ lex.pc # "raised"
  /\ lex.pc \in {"y1", "y3"} => ResumeIndex(text, lex) > lex.index

-----------------------------------------------------------------------------
(* Properties of replace, under Spec *)

Trivia == {"line comment", "block comment", "whitespace"}
PrefixKinds == {"named parameter prefix", "named parameter length prefix"}
PythonKinds == {"python named parameter", "python named parameter length"}
NameKinds == {"word", "quoted identifier"}

IsCommentToken(t) == t.kind \in {"line comment", "block comment"}

IsPlain(s) == \A i \in 1..Len(s) : s[i] \in {" ", "=", "x"}

\* C1: a template P + prefix + name + S with the name bound becomes P, then
\* the encoded value (the decimal length after a length prefix), then S: only
\* the prefix and the name are replaced, and the whitespace right before the
\* prefix is kept.  (P and S are taken without placeholder syntax, quotes or
\* comments, and S does not go on with the name.)
C1_OnlyPrefixAndNameReplaced ==
  pc = "returned" =>
    \A i \in 0..Len(text) : \A pre \in {<<":">>, <<"@">>, <<"#", ":">>, <<"#", "@">>} :
      LET j == i + Len(pre) + 1
          P == Slice(text, 0, i)
          S == Slice(text, j, Len(text))
          repl == IF Len(pre) = 1 THEN to_sql(bindings[X]) ELSE str_len(bindings[X])
      IN  (/\ X \in DOMAIN bindings
           /\ j <= Len(text)
           /\ Slice(text, i, j) = pre \o X
           /\ IsPlain(P) /\ IsPlain(S)
           /\ (S = <<>> \/ S[1] \notin WordChars))
          => result = P \o repl.s \o S

RECURSIVE PlaceholderNames(_, _)
\* the names the tokens toks use as placeholder names: the captures of the
\* python forms, and the name token that follows a prefix (after is TRUE when
\* a prefix is waiting for its name)
PlaceholderNames(toks, after) ==
  IF toks = <<>> THEN {}
  ELSE LET t == Head(toks)
       IN  CASE t.kind \in Trivia -> PlaceholderNames(Tail(toks), after)
             [] after /\ t.kind = "word" -> {t.text} \cup PlaceholderNames(Tail(toks), FALSE)
             [] after /\ t.kind = "quoted identifier" ->
                  {t.groups[1]} \cup PlaceholderNames(Tail(toks), FALSE)
             [] ~after /\ t.kind \in PythonKinds ->
                  {t.groups[1]} \cup PlaceholderNames(Tail(toks), FALSE)
             [] ~after /\ t.kind \in PrefixKinds -> PlaceholderNames(Tail(toks), TRUE)
             [] OTHER -> PlaceholderNames(Tail(toks), FALSE)

NoNameBound == PlaceholderNames(tokens, FALSE) \cap DOMAIN bindings = {}

\* C4: when no placeholder name of the template is a key of bindings, no
\* name token after a prefix and no python-style placeholder met in CHILLIN
\* makes replace raise, and what replace returns is the template, character
\* for character.
C4_UnboundLeftAsWritten ==
  NoNameBound =>
    /\ pc = "raised" =>
         /\ token.kind \notin NameKinds
         /\ token.kind \in PythonKinds => state # CHILLIN
    /\ pc = "returned" => result = text

\* C4's case: a template with a prefix, a comment and then a quoted name,
\* given bindings that bind another name, has been returned
C4_Witness ==
  /\ pc = "returned"
  /\ NoNameBound
  /\ DOMAIN bindings # {}
  /\ Len(tokens) = 3
  /\ tokens[1].kind \in PrefixKinds
  /\ IsCommentToken(tokens[2])
  /\ tokens[3].kind = "quoted identifier"
  /\ result = text

NoPlaceholderToken ==
  \A k \in 1..Len(tokens) : tokens[k].kind \notin PrefixKinds \cup PythonKinds

\* C5: a text whose tokens hold no value prefix, no length prefix and no
\* python-style placeholder is returned unchanged, without error, whatever
\* the bindings.
C5_NoPlaceholderUnchanged ==
  NoPlaceholderToken =>
    /\ pc # "raised"
    /\ pc = "returned" => result = text

\* C5's case: such a text, holding a word that is a key of the bindings
C5_Witness ==
  /\ pc = "returned"
  /\ NoPlaceholderToken
  /\ \E k \in 1..Len(tokens) :
       tokens[k].kind = "word" /\ tokens[k].text \in DOMAIN bindings
  /\ result = text

IsCommentPart(part) ==
  part \in {<<"/", "*", ":", "x", "*", "/">>, <<"-", "-", ":", "x", "\n">>}

\* C6: whenever replace returns, every comment token of the template is in
\* the output verbatim, in token order, wherever the comment stands.
C6_CommentsKept ==
  pc = "returned" =>
    TokenTexts(SelectSeq(tokens, IsCommentToken)) = SelectSeq(output_parts, IsCommentPart)

LengthTemplates == {
  <<"#", ":", "x">>,
  <<"#", "@", "x">>,
  <<"#", ":", "\"", "x", "\"">>,
  <<"#", "%", "(", "x", ")", "s">> }

\* C7: a length placeholder whose name is bound is replaced by the decimal
\* element count of a sequence (0 for the empty one, top-level elements only)
\* or character count of a string; bound to a number or to null, replace
\* raises and returns no string.  The prefix forms and the python-style form
\* give the same text.
C7_LengthOfBoundValue ==
  (text \in LengthTemplates /\ X \in DOMAIN bindings) =>
    LET val == bindings[X]
    IN  IF val.k \in {"str", "list"}
        THEN /\ pc # "raised"
             /\ pc = "returned" =>
                  /\ result = DecStr(Len(val.v))
                  /\ val = List(<<>>) => result = <<"0">>
                  /\ val = List(<<List(<<Num(1), Num(2)>>)>>) => result = <<"1">>
                  /\ val = Str(<<"O", "'", "B">>) => result = <<"3">>
        ELSE val.k \in {"num", "null"} => (pc # "returned" /\ result = None)

\* C7's case: the length of a nested sequence, by the quoted prefix form
C7_Witness ==
  /\ text = <<"#", ":", "\"", "x", "\"">>
  /\ X \in DOMAIN bindings
  /\ bindings[X] = List(<<List(<<Num(1), Num(2)>>)>>)
  /\ pc = "returned"
  /\ result = <<"1">>

\* a token that cannot be the name a prefix waits for
Malformed ==
  pc = "body" /\ state # CHILLIN /\ token.kind \notin Trivia \cup NameKinds

\* C8: in IN_PARAMETER or IN_PARAMETER_LENGTH, a next token (whitespace and
\* comments apart) that is neither a word nor a quoted identifier makes
\* replace raise, whatever the bindings, and no output string is returned.
C8_MalformedPlaceholderRaises ==
  /\ [][Malformed => (pc' = "raised" /\ result' = None)]_vars
  /\ [](pc = "raised" => result = None)

\* C8's case: a length prefix, whitespace or a comment, then a span that
\* matched no pattern
C8_Witness ==
  /\ pc = "raised"
  /\ state = IN_PARAMETER_LENGTH
  /\ Len(tokens) = 3
  /\ tokens[2].kind \in Trivia
  /\ token.kind = NoKind
  /\ X \in DOMAIN bindings
  /\ result = None

\* s ends with t
EndsWith(s, t) ==
  Len(t) <= Len(s) /\ SubSeq(s, Len(s) - Len(t) + 1, Len(s)) = t

LastPrefix == CHOOSE k \in 1..Len(tokens) :
                /\ tokens[k].kind \in PrefixKinds
                /\ \A j \in (k + 1)..Len(tokens) : tokens[j].kind \notin PrefixKinds

\* C9: when the tokens end while the parser is in IN_PARAMETER or
\* IN_PARAMETER_LENGTH, replace returns, and its output ends with the prefix
\* and the whitespace and comments after it as written; whatever is enqueued
\* after the last token is appended to the output, in order.
C9_PendingAppendedAtEnd ==
  /\ (pc = "for" /\ LexExhausted(text, lex) /\ state # CHILLIN) =>
       (ENABLED ReplaceReturn /\ ~ENABLED ReplaceRaise)
  /\ pc = "returned" =>
       /\ result = Join(output_parts)
       /\ EndsWith(output_parts, enqueued_parts)
       /\ state # CHILLIN =>
            /\ \A j \in (LastPrefix + 1)..Len(tokens) : tokens[j].kind \in Trivia
            /\ EndsWith(enqueued_parts, TokenTexts(SubSeq(tokens, LastPrefix, Len(tokens))))
            /\ EndsWith(result, Slice(text, tokens[LastPrefix].input_range[1], Len(text)))

\* C9's case: a template that ends with a prefix and a comment
C9_Witness ==
  /\ pc = "returned"
  /\ state = IN_PARAMETER
  /\ Len(tokens) = 3
  /\ tokens[2].kind \in PrefixKinds
  /\ IsCommentToken(tokens[3])
  /\ EndsWith(result, tokens[2].text \o tokens[3].text)

-----------------------------------------------------------------------------
(* Properties of to_sql, under SpecEnc *)

RECURSIVE Unquote(_)
\* the body of a quoted string decoded: each pair of quotes is one quote
Unquote(body) ==
  IF body = <<>> THEN <<>>
  ELSE IF Head(body) = "'" /\ Len(body) >= 2 /\ body[2] = "'"
  THEN <<"'">> \o Unquote(Tail(Tail(body)))
  ELSE <<Head(body)>> \o Unquote(Tail(body))

RECURSIVE QuotesPaired(_)
\* every quote of body is one of a pair
QuotesPaired(body) ==
  IF body = <<>> THEN TRUE
  ELSE IF Head(body) # "'" THEN QuotesPaired(Tail(body))
  ELSE Len(body) >= 2 /\ body[2] = "'" /\ QuotesPaired(Tail(Tail(body)))

NotQuote(c) == c # "'"
IsQuote(c) == c = "'"

\* C10: to_sql of a string is a quote, the string with every quote doubled
\* and every other character unchanged, and a quote; decoding it gives back
\* the string, and its body holds no unpaired quote.
C10_StringRoundTrip ==
  (pc = "returned" /\ value.k = "str") =>
    /\ Len(encoded) >= 2
    /\ encoded[1] = "'" /\ encoded[Len(encoded)] = "'"
    /\ LET body == SubSeq(encoded, 2, Len(encoded) - 1)
       IN  /\ QuotesPaired(body)
           /\ Unquote(body) = value.v
           /\ SelectSeq(body, NotQuote) = SelectSeq(value.v, NotQuote)
           /\ Len(SelectSeq(body, IsQuote)) = 2 * Len(SelectSeq(value.v, IsQuote))

\* C10's case: a string with quotes at both ends has been encoded
C10_Witness ==
  /\ pc = "returned"
  /\ value = Str(<<"'", "a", "'">>)
  /\ encoded = <<"'", "'", "'", "a", "'", "'", "'">>

RECURSIVE CommaJoin(_)
\* the strings parts with ', ' between each two
CommaJoin(parts) ==
  IF parts = <<>> THEN <<>>
  ELSE IF Len(parts) = 1 THEN parts[1]
  ELSE parts[1] \o <<",", " ">> \o CommaJoin(Tail(parts))

RECURSIVE Supported(_)
\* a str, a number, None, or a list of supported values
Supported(val) ==
  \/ val.k \in {"str", "num", "null"}
  \/ val.k = "list" /\ \A i \in 1..Len(val.v) : Supported(val.v[i])

\* C11: to_sql of a sequence of supported values returns '(' , the encodings
\* of its elements in order with ', ' between them, and ')': '()' for the
\* empty sequence, a nested list for a nested sequence at any depth, and the
\* text null for a null element.
C11_SequenceEncoding ==
  (value.k = "list" /\ Supported(value)) =>
    /\ pc # "raised"
    /\ pc = "returned" =>
         /\ encoded = <<"(">>
                         \o CommaJoin([i \in 1..Len(value.v) |-> to_sql(value.v[i]).s])
                         \o <<")">>
         /\ value.v = <<>> => encoded = <<"(", ")">>
         /\ value = List(<<Null, Num(1)>>) =>
              encoded = <<"(", "n", "u", "l", "l", ",", " ", "1", ")">>
         /\ value = List(<<List(<<List(<<Num(3)>>)>>)>>) =>
              encoded = <<"(", "(", "(", "3", ")", ")", ")">>
         /\ value = List(<<List(<<>>), Str(<<"'">>)>>) =>
              encoded = <<"(", "(", ")", ",", " ", "'", "'", "'", "'", ")">>

\* C11's case: a sequence of a sequence with a null element and an empty one
C11_Witness ==
  /\ pc = "returned"
  /\ value = List(<<List(<<Num(2), Null>>), List(<<>>)>>)
  /\ encoded = <<"(", "(", "2", ",", " ", "n", "u", "l", "l", ")", ",", " ",
                 "(", ")", ")">>

-----------------------------------------------------------------------------
(* Properties of replace and to_sql together, under Spec *)

RECURSIVE ValuePlaceholders(_, _)
\* the names of the value placeholders among the tokens toks: the capture of
\* %(name)s, and the name token that follows a value prefix (whitespace and
\* comments apart); after is "none", or the kind of prefix waiting for a name
ValuePlaceholders(toks, after) ==
  IF toks = <<>> THEN {}
  ELSE LET t == Head(toks)
           rest == Tail(toks)
       IN  CASE t.kind \in Trivia -> ValuePlaceholders(rest, after)
             [] after = "none" /\ t.kind = "python named parameter" ->
                  {t.groups[1]} \cup ValuePlaceholders(rest, "none")
             [] after = "none" /\ t.kind = "named parameter prefix" ->
                  ValuePlaceholders(rest, "value")
             [] after = "none" /\ t.kind = "named parameter length prefix" ->
                  ValuePlaceholders(rest, "length")
             [] after = "value" /\ t.kind = "word" ->
                  {t.text} \cup ValuePlaceholders(rest, "none")
             [] after = "value" /\ t.kind = "quoted identifier" ->
                  {t.groups[1]} \cup ValuePlaceholders(rest, "none")
             [] OTHER -> ValuePlaceholders(rest, "none")

\* the bound names whose value to_sql does not support
UnsupportedNames == {n \in DOMAIN bindings : ~Supported(bindings[n])}

\* a value placeholder that names such a binding is among the tokens read
ReachedUnsupported == ValuePlaceholders(tokens, "none") \cap UnsupportedNames # {}

\* the name the token in hand gives, as a placeholder name
TokenName == IF token.kind = "word" THEN token.text ELSE token.groups[1]

\* the token in hand asks for the length of a number or of None
LengthOfNoLength ==
  /\ \/ state = IN_PARAMETER_LENGTH /\ token.kind \in NameKinds
     \/ state = CHILLIN /\ token.kind = "python named parameter length"
  /\ TokenName \in DOMAIN bindings
  /\ bindings[TokenName].k \in {"num", "null"}

\* C12: to_sql fails for a value of unsupported kind, at top level or nested
\* in a sequence, and for no other; replace fails for that reason exactly
\* when a value placeholder naming such a binding is reached outside quoted
\* strings and comments: then the next step is the raise and nothing is
\* returned, and a raise without one has another cause (a malformed
\* placeholder, the length of a number or of null).  A binding of unsupported
\* kind that no value placeholder reached names, or whose length alone is
\* taken, makes nothing fail.
C12_UnsupportedFailsWhenReached ==
  /\ \A n \in DOMAIN bindings : to_sql(bindings[n]).ok <=> Supported(bindings[n])
  /\ ReachedUnsupported =>
       /\ pc \in {"body", "raised"}
       /\ result = None
       /\ pc = "body" => (ENABLED ReplaceRaise /\ ~ENABLED ReplaceToken)
  /\ (pc = "raised" /\ ~ReachedUnsupported) =>
       \/ state # CHILLIN /\ token.kind \notin NameKinds
       \/ LengthOfNoLength

\* C12's case: the placeholder in a quoted string is passed over, and the
\* value placeholder after it, bound to a sequence that holds a sequence that
\* holds a dict, has made replace raise
C12_Witness ==
  /\ pc = "raised"
  /\ Len(tokens) = 2
  /\ tokens[1].kind = "quoted string"
  /\ tokens[2].kind = "python named parameter"
  /\ X \in DOMAIN bindings
  /\ bindings[X] = List(<<Num(1), List(<<Dict>>)>>)
  /\ ReachedUnsupported
  /\ result = None

-----------------------------------------------------------------------------
(* Properties of the parser's handling of whitespace, comments and names *)

\* the name a word or quoted identifier token gives: the word, or what is
\* between the double quotes
NameOf(t) == IF t.kind = "word" THEN t.text ELSE SubSeq(t.text, 2, Len(t.text) - 1)

\* the tokens are a prefix, any whitespace and comments, and a bound name
PrefixTriviaName ==
  /\ Len(tokens) >= 2
  /\ tokens[1].kind \in PrefixKinds
  /\ \A k \in 2..(Len(tokens) - 1) : tokens[k].kind \in Trivia
  /\ tokens[Len(tokens)].kind \in NameKinds
  /\ NameOf(tokens[Len(tokens)]) \in DOMAIN bindings

\* what a placeholder with the prefix token p and the bound value val becomes
Replacement(p, val) ==
  IF p.kind = "named parameter prefix" THEN to_sql(val) ELSE str_len(val)

\* C13: whatever whitespace and comments stand between a prefix and a bound
\* name, replace gives what it gives for the prefix and the name alone: the
\* encoded value (after a length prefix the length) and nothing else, the
\* prefix and what stood between absent; it raises only when the encoding
\* does.  A whitespace or comment token is enqueued and leaves the parser
\* state as it was, in each of the three states.
C13_TriviaBeforeNameIgnored ==
  /\ [][(pc = "body" /\ token.kind \in Trivia) =>
          /\ pc' = "for"
          /\ state' = state
          /\ output_parts' = output_parts
          /\ enqueued_parts' = Append(enqueued_parts, token.text)]_vars
  /\ []((PrefixTriviaName /\ pc \in {"returned", "raised"}) =>
          LET r == Replacement(tokens[1], bindings[NameOf(tokens[Len(tokens)])])
          IN  /\ pc = "returned" <=> r.ok
              /\ pc = "returned" => result = r.s)

\* C13's case: a prefix, a comment and the bound name have become the value
C13_Witness ==
  /\ pc = "returned"
  /\ Len(tokens) = 3
  /\ tokens[1].kind = "named parameter prefix"
  /\ IsCommentToken(tokens[2])
  /\ tokens[3].kind = "word"
  /\ X \in DOMAIN bindings
  /\ bindings[X] = Num(5)
  /\ result = <<"5">>

\* the kinds CHILLIN passes through: a quoted string, a quoted identifier, a
\* word, and a span that matched no pattern
PassedKinds == {"quoted string", "quoted identifier", "word", NoKind}

IsQuotedString(t) == t.kind = "quoted string"
IsQuotedStringPart(part) == part = <<"'", ":", "x", "'">>

\* a quoted identifier with placeholder syntax inside
IsQuotedPlaceholderPart(part) == part \in QuotedFragments
IsQuotedPlaceholder(t) ==
  t.kind = "quoted identifier" /\ IsQuotedPlaceholderPart(t.text)

\* C14: in CHILLIN a quoted string, a quoted identifier, a word and a span
\* that matched nothing are each appended to the output as written, after
\* what was enqueued, whatever the bindings, and the state stays CHILLIN; so
\* every quoted string of a template replace returns, and every quoted
\* identifier that holds :x (no key being :x), is in the output as written,
\* with the placeholder inside it, and a word that is a bound name is
\* replaced only after a prefix.
C14_ChillinPassesThrough ==
  /\ [][(pc = "body" /\ state = CHILLIN /\ token.kind \in PassedKinds) =>
          /\ pc' = "for"
          /\ state' = CHILLIN
          /\ output_parts' = output_parts \o enqueued_parts \o <<token.text>>
          /\ enqueued_parts' = <<>>]_vars
  /\ [](pc = "returned" =>
          /\ TokenTexts(SelectSeq(tokens, IsQuotedString))
               = SelectSeq(output_parts, IsQuotedStringPart)
          /\ CX \notin DOMAIN bindings =>
               TokenTexts(SelectSeq(tokens, IsQuotedPlaceholder))
                 = SelectSeq(output_parts, IsQuotedPlaceholderPart))

\* C14's case: a comment, a quoted string holding :x and the word x, with x
\* bound, have been returned as written
C14_Witness ==
  /\ pc = "returned"
  /\ X \in DOMAIN bindings
  /\ Len(tokens) = 3
  /\ IsCommentToken(tokens[1])
  /\ tokens[2].kind = "quoted string"
  /\ tokens[3].kind = "word"
  /\ tokens[3].text = X
  /\ output_parts = TokenTexts(tokens)
  /\ result = text

\* the tokens begin with a prefix and a quoted identifier
PrefixQuotedName ==
  /\ Len(tokens) >= 2
  /\ tokens[1].kind \in PrefixKinds
  /\ tokens[2].kind = "quoted identifier"

\* the last non-whitespace, non-comment token before token k is a prefix
RECURSIVE AfterPrefix(_)
AfterPrefix(k) ==
  /\ k > 1
  /\ IF tokens[k - 1].kind \in Trivia THEN AfterPrefix(k - 1)
     ELSE tokens[k - 1].kind \in PrefixKinds

\* the prefix that token k, a name after a prefix, follows
RECURSIVE PrefixBefore(_)
PrefixBefore(k) ==
  IF tokens[k - 1].kind \in Trivia THEN PrefixBefore(k - 1) ELSE tokens[k - 1]

\* C15: the name after a prefix is the word, or what is between the double
\* quotes of a quoted identifier, a word or not.  A template that is a prefix
\* and a quoted identifier becomes the encoded value (the length) of what is
\* between the quotes when that is bound, and is left as written, quotes
\* included, when it is not bound, also when the key that is the name with
\* its double quotes is.  Once a name token after a prefix has been
\* handled the state is CHILLIN, and the output ends with the replacement
\* when the name is bound and with the token as written when it is not.
C15_QuotedNameWithoutQuotes ==
  /\ (PrefixQuotedName /\ Len(tokens) = 2 /\ pc \in {"returned", "raised"}) =>
       LET name == SubSeq(tokens[2].text, 2, Len(tokens[2].text) - 1)
       IN  IF name \in DOMAIN bindings
           THEN LET r == Replacement(tokens[1], bindings[name])
                IN  /\ pc = "returned" <=> r.ok
                    /\ pc = "returned" => result = r.s
           ELSE pc = "returned" /\ result = text
  /\ (pc = "for" /\ tokens # <<>> /\ token.kind \in NameKinds) =>
       /\ state = CHILLIN
       /\ enqueued_parts = <<>>
       /\ AfterPrefix(Len(tokens)) =>
            output_parts[Len(output_parts)]
              = IF NameOf(token) \in DOMAIN bindings
                THEN Replacement(PrefixBefore(Len(tokens)),
                                 bindings[NameOf(token)]).s
                ELSE token.text

\* C15's case: :"x" is left as written when the key bound is "x" with its
\* double quotes
C15_Witness ==
  /\ pc = "returned"
  /\ text = <<":">> \o QX
  /\ DOMAIN bindings = {QX}
  /\ state = CHILLIN
  /\ result = text

\* the text of a whitespace token or of a comment token
IsTriviaPart(part) ==
  \/ part # <<>> /\ \A i \in 1..Len(part) : part[i] \in SpaceChars
  \/ IsCommentPart(part)

IsValuePrefixPart(part) == part \in {<<":">>, <<"@">>}
IsLengthPrefixPart(part) == part \in {<<"#", ":">>, <<"#", "@">>}

\* s begins with t
StartsWith(s, t) == Len(t) <= Len(s) /\ SubSeq(s, 1, Len(t)) = t

\* C18: at the head of the loop and in its body, as long as nothing has
\* raised: in CHILLIN the enqueued parts are whitespace and comment texts
\* only; in IN_PARAMETER (IN_PARAMETER_LENGTH) they are one value prefix
\* (length prefix) and, before and after it, whitespace and comment texts
\* only.  A step of the loop either enqueues its part and leaves the output
\* as it was (PUSH), or appends to the output and leaves nothing enqueued
\* (EMIT, FLUSH); and no step ever does anything to the output but append.
C18_PendingBufferInvariant ==
  /\ [](pc \in {"for", "body"} =>
          /\ state = CHILLIN => SelectSeq(enqueued_parts, IsTriviaPart) = enqueued_parts
          /\ state = IN_PARAMETER =>
               /\ Len(SelectSeq(enqueued_parts, IsValuePrefixPart)) = 1
               /\ Len(SelectSeq(enqueued_parts, IsTriviaPart)) = Len(enqueued_parts) - 1
          /\ state = IN_PARAMETER_LENGTH =>
               /\ Len(SelectSeq(enqueued_parts, IsLengthPrefixPart)) = 1
               /\ Len(SelectSeq(enqueued_parts, IsTriviaPart)) = Len(enqueued_parts) - 1)
  /\ [][(pc = "body" /\ pc' = "for") =>
          LET h == handle_token(token, state, bindings)
          IN  /\ h.op = PUSH =>
                   /\ output_parts' = output_parts
                   /\ enqueued_parts' = Append(enqueued_parts, h.part)
              /\ h.op \in {EMIT, FLUSH} =>
                   /\ enqueued_parts' = <<>>
                   /\ Len(output_parts') > Len(output_parts)
                   /\ output_parts'[Len(output_parts')] = h.part]_vars
  /\ [][StartsWith(output_parts', output_parts)]_vars

\* C18's case: a comment, a length prefix and whitespace are enqueued, the
\* parser waiting for the name
C18_Witness ==
  /\ pc = "for"
  /\ state = IN_PARAMETER_LENGTH
  /\ Len(enqueued_parts) = 3
  /\ IsCommentPart(enqueued_parts[1])
  /\ IsLengthPrefixPart(enqueued_parts[2])
  /\ IsTriviaPart(enqueued_parts[3])
  /\ output_parts = <<>>

-----------------------------------------------------------------------------
(* Properties of the group specs of a Lexer, under SpecLex *)

RECURSIVE GroupsBefore(_, _)
\* the groups of the combined pattern that the entries before entry k have:
\* for each its enclosing group and its capturing subgroups
GroupsBefore(ps, k) ==
  IF k = 1 THEN 0 ELSE GroupsBefore(ps, k - 1) + 1 + NumGroups(ps[k - 1][2])

\* the index in patterns of the entry named kind
EntryOf(kind) == CHOOSE k \in 1..Len(patterns) : patterns[k][1] = kind

\* entry k matches s at position i
MatchesAt(k, s, i) == Matches(patterns[k][2], s, i) # <<>>

\* C16: in the group specs of every token patterns, entry k's group index is
\* the sum over the entries before it of 1 + their number of capturing
\* subgroups, and its subgroup range is the indices right after it, as many
\* as its subgroups: the ranges of the entries are disjoint and adjacent.
\* So a matched token's kind is the first entry, in mapping order, that
\* matches where the token starts, its text is that entry's match, and its
\* groups are that entry's own subgroups, as many as it declares.
C16_GroupSpecsPartitionGroups ==
  LET specs == Lexer(patterns).group_specs
  IN  /\ Len(specs) = Len(patterns)
      /\ \A k \in 1..Len(specs) :
           /\ specs[k].token_kind = patterns[k][1]
           /\ specs[k].group_index = GroupsBefore(patterns, k)
           /\ specs[k].subgroup_range[1] = specs[k].group_index + 1
           /\ specs[k].subgroup_range[2]
                = specs[k].subgroup_range[1] + NumGroups(patterns[k][2])
           /\ k > 1 => specs[k].group_index = specs[k - 1].subgroup_range[2]
      /\ \A j \in 1..Len(tokens) :
           tokens[j].kind # NoKind =>
             LET k == EntryOf(tokens[j].kind)
                 start == tokens[j].input_range[1]
                 own == Matches(patterns[k][2], text, start)
             IN  /\ \A e \in 1..(k - 1) : ~MatchesAt(e, text, start)
                 /\ own # <<>>
                 /\ tokens[j].input_range[2] = own[1].e
                 /\ tokens[j].text = Slice(text, start, own[1].e)
                 /\ Len(tokens[j].groups) = NumGroups(patterns[k][2])
                 /\ tokens[j].groups = MatchGroups(text, own[1])

\* C16's case: the third entry, after an entry of two subgroups and one of
\* none, has matched, and its one subgroup is its own
C16_Witness ==
  /\ Len(patterns) = 3
  /\ NumGroups(patterns[1][2]) = 2
  /\ NumGroups(patterns[3][2]) = 1
  /\ text = <<"a", "a", "b">>
  /\ Len(tokens) = 2
  /\ tokens[1].kind = patterns[3][1]
  /\ tokens[1].groups = <<<<"a">>>>
  /\ tokens[2].kind = patterns[2][1]
  /\ tokens[2].groups = <<>>

-----------------------------------------------------------------------------
(* Properties of _tokens called from several threads, under SpecThreads *)

\* C17: however the steps of the threads that call replace interleave, the
\* Lexer singleton is constructed once: no two calls both find the global
\* None and both construct and store a Lexer, and every call tokenizes with
\* the one object stored.
C17_SingletonConstructedOnce ==
  /\ constructed <= 1
  /\ \A t \in DOMAIN thread : \A i \in 1..Len(thread[t].used) :
       thread[t].used[i] = 1

=============================================================================
